---- MODULE Spec2Model ----
(***************************************************************************)
(* State machine of the avatar front end: the persisted session store      *)
(* (useAppStore), the Home page that gates the setup panel and the main    *)
(* content, the UploadPanel setup wizard, the ChatInterface and            *)
(* ManualInput components and the AvatarDisplay player.                    *)
(*                                                                         *)
(* Every event handler, mutation callback and media callback is one        *)
(* action.  An action contains the store update, the React state updates   *)
(* and the re-render that follows them: mounting and unmounting of         *)
(* components, the initial state of freshly mounted components and the     *)
(* effects of AvatarDisplay.  Callbacks given to useMutation run whether   *)
(* or not the component that issued the request is still mounted; the      *)
(* setters of an unmounted component do nothing, the store's setters and   *)
(* Home's setShowSetup still act.                                          *)
(***************************************************************************)
EXTENDS Integers, Sequences, FiniteSets, TLC

(***************************************************************************)
(* Bounds of the model.                                                    *)
(***************************************************************************)
\* upload and clone requests issued over a behaviour
MaxSetupReqs == 3
\* chat exchanges (text or voice) issued over a behaviour
MaxChatReqs == 2
\* manual speak and preview requests issued over a behaviour
MaxTasks == 2
\* exchanges issued over a behaviour of SpecTurns
MaxTurnReqs == 2
\* speak requests issued over a behaviour of SpecJourney
MaxJourneyTasks == 1
\* speak and preview requests issued over a behaviour of SpecText
MaxTextTasks == 2
\* chat and manual requests issued over a behaviour of SpecMedia
MaxMediaReqs == 2
\* chat and manual requests issued over a behaviour of SpecGate
MaxGateReqs == 1
\* speak requests issued over a behaviour of SpecHistory
MaxHistoryTasks == 12

MaxOutcomeReqs == 2

MaxReloadReqs == 2

MaxBlankReqs == 2

(***************************************************************************)
(* Values.                                                                 *)
(***************************************************************************)
\* null of an identifier (string | null in AppState); identifiers are 1, 2, ...
Null == 0

\* null of a media URL; a URL is << flow, "video" | "audio", request id >>
NoUrl == << >>

VideoUrl(flow, id) == << flow, "video", id >>

AudioUrl(flow, id) == << flow, "audio", id >>

NoError == "none"

\* the drop zones before any drop
NoRejections == [voice |-> {}, image |-> {}]

MB == 1024 * 1024

\* maxSize of the voice drop zone and of the image drop zone, in bytes
VoiceMaxSize == 10 * MB

ImageMaxSize == 5 * MB

\* files a user can drop: MIME type, extension, size in bytes
Files ==
  { [mime |-> "audio/wav",       ext |-> ".wav", size |-> 3 * MB],
    [mime |-> "audio/wav",       ext |-> ".wav", size |-> VoiceMaxSize + 1],
    [mime |-> "image/jpeg",      ext |-> ".jpg", size |-> 2 * MB],
    [mime |-> "image/jpeg",      ext |-> ".jpg", size |-> ImageMaxSize + 1],
    [mime |-> "application/pdf", ext |-> ".pdf", size |-> 1 * MB] }

\* A text is a run of whitespace, a core without whitespace at its ends, and
\* a run of whitespace; an all-whitespace text has an empty core.
MAX_CHARS == 5000

EmptyText == [lead |-> 0, core |-> 0, trail |-> 0]

TextLen(t) == t.lead + t.core + t.trail

\* String.prototype.trim
Trim(t) == [lead |-> 0, core |-> t.core, trail |-> 0]

\* !text.trim()
IsBlank(t) == TextLen(Trim(t)) = 0

Min(a, b) == IF a <= b THEN a ELSE b

\* a slice that cuts nothing
SliceAll(t, n) == t

\* String.prototype.slice(0, n)
Slice(t, n) ==
  LET l == Min(t.lead, n)
      c == Min(t.core, n - l)
      r == Min(t.trail, n - l - c)
  IN  [lead |-> l, core |-> c, trail |-> r]

\* values typed into the chat input and the manual text area
TextInputs ==
  { [lead |-> 1, core |-> 0, trail |-> 0],
    [lead |-> 1, core |-> 2, trail |-> 1] }

\* values typed or pasted into the manual text area around MAX_CHARS: below
\* the cap, at the cap, over the cap, over the cap with white space around
\* the text, and white space only
CapInputs ==
  { [lead |-> 0, core |-> MAX_CHARS - 1, trail |-> 0],
    [lead |-> 0, core |-> MAX_CHARS, trail |-> 0],
    [lead |-> 0, core |-> MAX_CHARS + 1, trail |-> 0],
    [lead |-> 2, core |-> MAX_CHARS - 1, trail |-> 3],
    [lead |-> MAX_CHARS + 1, core |-> 0, trail |-> 0] }

VARIABLES
  \* useAppStore
  voiceId, cloneId, imageId, isReady,
  mode, messages, isLoading,
  currentVideoUrl, currentAudioUrl,
  \* Home
  showSetup,
  \* UploadPanel: local state ("unmounted" while the panel is not rendered)
  currentStep, error,
  \* the files the last drop into the voice drop zone and into the image
  \* drop zone left rejected (the state kept by useDropzone)
  fileRejections,
  \* upload and clone requests awaiting their response; live = issued by the
  \* UploadPanel instance that is mounted now
  setupReqs,
  \* upload / clone requests issued so far (the server's id counter)
  nreq,
  \* ChatInterface: local state
  input, conversationId, isRecording,
  \* startRecording awaiting getUserMedia, and the cloneId, imageId and
  \* conversationId its closure (and the recorder's onstop) has captured
  micPending, recClosure,
  \* chat exchanges under way: a voice exchange is "queued" between
  \* MediaRecorder.stop() and its onstop callback, then "sent"
  chatReqs, nchat,
  \* ManualInput: local state
  text, previewOnly, history,
  manualReqs, ntask,
  \* the clock new Date() reads
  clock,
  \* AvatarDisplay: local state and the state of its media elements
  isPlaying, isMuted, videoPlaying, videoMuted, audioPlaying, audioMuted

session == << voiceId, cloneId, imageId, isReady >>

media == << currentVideoUrl, currentAudioUrl >>

counters == << nreq, nchat, ntask, clock >>

panelVars == << currentStep, error, fileRejections, setupReqs >>

chatVars == << input, conversationId, isRecording, micPending, recClosure, chatReqs >>

manualVars == << text, previewOnly, history, manualReqs >>

avatarVars == << isPlaying, isMuted, videoPlaying, videoMuted, audioPlaying, audioMuted >>

vars == << session, mode, messages, isLoading, media, showSetup, counters,
           panelVars, chatVars, manualVars, avatarVars >>

(***************************************************************************)
(* Home: which part of the page is rendered.                               *)
(***************************************************************************)
PanelShown(ss, rdy) == ss \/ ~rdy

MainShown(ss, rdy) == rdy /\ ~ss

ChatShown(ss, rdy, md) == MainShown(ss, rdy) /\ md = "auto"

ManualShown(ss, rdy, md) == MainShown(ss, rdy) /\ md # "auto"

\* a store that takes the session for ready without an image
ReadyWithoutImage(v, c, i) == v # Null /\ c # Null

(***************************************************************************)
(* useAppStore: isReady as the three setters compute it.                   *)
(***************************************************************************)
ReadyOf(v, c, i) == v # Null /\ c # Null /\ i # Null

Orphaned(reqs) == { [r EXCEPT !.live = FALSE] : r \in reqs }

(***************************************************************************)
(* Re-rendering.  Each operator takes the local state of a component as    *)
(* the handler left it and gives the state after the render that follows   *)
(* the handler: a component that is no longer rendered loses its state and *)
(* its pending requests lose their component; a component rendered anew    *)
(* starts from the initial values of useState.                             *)
(***************************************************************************)
InitialStep(v, c, i) ==
  IF i # Null THEN "complete"
  ELSE IF c # Null THEN "image"
  ELSE IF v # Null THEN "clone"
  ELSE "voice"

PanelRender(st, er, reqs) ==
  LET before == PanelShown(showSetup, isReady)
      after  == PanelShown(showSetup', isReady')
  IN  /\ currentStep' = IF ~after THEN "unmounted"
                        ELSE IF before THEN st
                        ELSE InitialStep(voiceId', cloneId', imageId')
      /\ error' = IF after /\ before THEN er ELSE NoError
      /\ fileRejections' = IF after /\ before THEN fileRejections ELSE NoRejections
      /\ setupReqs' = IF after /\ before THEN reqs ELSE Orphaned(reqs)

PanelKeep == PanelRender(currentStep, error, setupReqs)

NoClosure == [conv |-> Null, clone |-> Null, image |-> Null]

ChatRender(inp, conv, rec, mic, clo, reqs) ==
  LET kept == /\ ChatShown(showSetup, isReady, mode)
              /\ ChatShown(showSetup', isReady', mode')
  IN  /\ input' = IF kept THEN inp ELSE EmptyText
      /\ conversationId' = IF kept THEN conv ELSE Null
      /\ isRecording' = (kept /\ rec)
      /\ micPending' = (kept /\ mic)
      /\ recClosure' = IF kept THEN clo ELSE NoClosure
      /\ chatReqs' = IF kept THEN reqs ELSE Orphaned(reqs)

ChatKeep ==
  ChatRender(input, conversationId, isRecording, micPending, recClosure, chatReqs)

ManualRender(txt, po, hist, reqs) ==
  LET kept == /\ ManualShown(showSetup, isReady, mode)
              /\ ManualShown(showSetup', isReady', mode')
  IN  /\ text' = IF kept THEN txt ELSE EmptyText
      /\ previewOnly' = (kept /\ po)
      /\ history' = IF kept THEN hist ELSE << >>
      /\ manualReqs' = IF kept THEN reqs ELSE Orphaned(reqs)

ManualKeep == ManualRender(text, previewOnly, history, manualReqs)

\* AvatarDisplay renders the video element while currentVideoUrl is set ...
VideoRendered(v) == v # NoUrl

\* an audio element rendered whenever an audio reference is set
AudioRenderedBesideVideo(v, a) == a # NoUrl

\* ... and the audio element while currentAudioUrl is set and no video is
AudioRendered(v, a) == a # NoUrl /\ v = NoUrl

\* the condition of the audio effect: currentAudioUrl && audioRef.current &&
\* !currentVideoUrl
AudioEffectPlays(v, a, hasRef) == a # NoUrl /\ hasRef /\ v = NoUrl

\* ip .. am: isPlaying, isMuted and the elements' playing and muted flags as
\* the handler left them.  An effect runs on mount and when one of its
\* dependencies has changed; play() is taken to succeed.
AvatarRender(ip, im, vp, vm, ap, am) ==
  LET before == MainShown(showSetup, isReady)
      after  == MainShown(showSetup', isReady')
      fresh  == after /\ ~before
      v0 == currentVideoUrl     a0 == currentAudioUrl
      v1 == currentVideoUrl'    a1 == currentAudioUrl'
      videoBefore == before /\ VideoRendered(v0)
      videoAfter  == after /\ VideoRendered(v1)
      audioBefore == before /\ AudioRendered(v0, a0)
      audioAfter  == after /\ AudioRendered(v1, a1)
      videoEffect == videoAfter /\ (fresh \/ v1 # v0)
      audioEffect == /\ AudioEffectPlays(v1, a1, audioAfter)
                     /\ (fresh \/ v1 # v0 \/ a1 # a0)
  IN  /\ isPlaying' = (after /\ (videoEffect \/ (~fresh /\ ip)))
      /\ isMuted' = (after /\ ~fresh /\ im)
      /\ videoPlaying' = (videoAfter /\ (videoEffect \/ (videoBefore /\ vp)))
      /\ videoMuted' = (videoAfter /\ videoBefore /\ vm)
      /\ audioPlaying' = (audioAfter /\ (audioEffect \/ ~audioBefore \/ ap))
      /\ audioMuted' = (audioAfter /\ audioBefore /\ am)

AvatarKeep ==
  AvatarRender(isPlaying, isMuted, videoPlaying, videoMuted, audioPlaying, audioMuted)

\* the render after a handler that changes the state of no component itself
RenderAll == PanelKeep /\ ChatKeep /\ ManualKeep /\ AvatarKeep

(***************************************************************************)
(* UploadPanel.                                                            *)
(***************************************************************************)
StepRank(s) ==
  CASE s = "voice" -> 0
    [] s = "clone" -> 1
    [] s = "image" -> 2
    [] s = "complete" -> 3
    [] OTHER -> -1

\* react-dropzone: a file is accepted when its MIME type matches the accept
\* pattern or its extension is listed, and its size is at most maxSize
MimeMatches(pattern, mime) ==
  CASE pattern = "audio/*" -> mime \in {"audio/wav", "audio/mpeg", "audio/ogg"}
    [] pattern = "image/*" -> mime \in {"image/jpeg", "image/png"}
    [] OTHER -> FALSE

VoiceAccepts(f) ==
  /\ MimeMatches("audio/*", f.mime) \/ f.ext \in {".mp3", ".wav", ".m4a", ".ogg"}
  /\ f.size <= VoiceMaxSize

ImageAccepts(f) ==
  /\ MimeMatches("image/*", f.mime) \/ f.ext \in {".jpg", ".jpeg", ".png"}
  /\ f.size <= ImageMaxSize

\* the server names a clone after the voice sample it was created from
ServerClone(v) == v

NewReq(kind, arg) == [id |-> nreq + 1, kind |-> kind, arg |-> arg, live |-> TRUE]

\* what a handler of the setup panel leaves alone outside the panel
SetupFrame ==
  /\ UNCHANGED << mode, messages, isLoading, media, nchat, ntask, clock >>
  /\ ChatKeep /\ ManualKeep /\ AvatarKeep

\* onVoiceDrop: the drop zone is rendered in step voice, also while an upload
\* is pending; a rejected file reaches onDrop as an empty acceptedFiles
DropVoice(f) ==
  /\ currentStep = "voice"
  /\ IF VoiceAccepts(f)
       THEN /\ setupReqs' = setupReqs \cup {NewReq("voice", Null)}
            /\ nreq' = nreq + 1
       ELSE UNCHANGED << setupReqs, nreq >>
  /\ fileRejections' = [fileRejections EXCEPT
                          !.voice = IF VoiceAccepts(f) THEN {} ELSE {f}]
  /\ UNCHANGED << session, showSetup, currentStep, error >>
  /\ SetupFrame

\* voiceUploadMutation.onSuccess
VoiceUploadOk(r) ==
  /\ r \in setupReqs /\ r.kind = "voice"
  /\ voiceId' = r.id
  /\ isReady' = ReadyOf(r.id, cloneId, imageId)
  /\ UNCHANGED << cloneId, imageId, showSetup, nreq >>
  /\ PanelRender(IF r.live THEN "clone" ELSE currentStep,
                 IF r.live THEN NoError ELSE error,
                 setupReqs \ {r})
  /\ SetupFrame

\* voiceUploadMutation.onError
VoiceUploadFail(r) ==
  /\ r \in setupReqs /\ r.kind = "voice"
  /\ UNCHANGED << session, showSetup, nreq >>
  /\ PanelRender(currentStep,
                 IF r.live THEN "Voice upload failed" ELSE error,
                 setupReqs \ {r})
  /\ SetupFrame

\* handleCreateClone: the button is rendered in step clone and disabled while
\* this panel's clone mutation is pending
CreateClone ==
  /\ currentStep = "clone"
  /\ ~ \E r \in setupReqs : r.kind = "clone" /\ r.live
  /\ IF voiceId # Null
       THEN /\ setupReqs' = setupReqs \cup {NewReq("clone", voiceId)}
            /\ nreq' = nreq + 1
       ELSE UNCHANGED << setupReqs, nreq >>
  /\ UNCHANGED << session, showSetup, currentStep, error, fileRejections >>
  /\ SetupFrame

\* voiceCloneMutation.onSuccess
CloneOk(r) ==
  /\ r \in setupReqs /\ r.kind = "clone"
  /\ cloneId' = ServerClone(r.arg)
  /\ isReady' = ReadyOf(voiceId, ServerClone(r.arg), imageId)
  /\ UNCHANGED << voiceId, imageId, showSetup, nreq >>
  /\ PanelRender(IF r.live THEN "image" ELSE currentStep,
                 IF r.live THEN NoError ELSE error,
                 setupReqs \ {r})
  /\ SetupFrame

\* voiceCloneMutation.onError
CloneFail(r) ==
  /\ r \in setupReqs /\ r.kind = "clone"
  /\ UNCHANGED << session, showSetup, nreq >>
  /\ PanelRender(currentStep,
                 IF r.live THEN "Voice cloning failed" ELSE error,
                 setupReqs \ {r})
  /\ SetupFrame

\* onImageDrop
DropImage(f) ==
  /\ currentStep = "image"
  /\ IF ImageAccepts(f)
       THEN /\ setupReqs' = setupReqs \cup {NewReq("image", Null)}
            /\ nreq' = nreq + 1
       ELSE UNCHANGED << setupReqs, nreq >>
  /\ fileRejections' = [fileRejections EXCEPT
                          !.image = IF ImageAccepts(f) THEN {} ELSE {f}]
  /\ UNCHANGED << session, showSetup, currentStep, error >>
  /\ SetupFrame

\* imageUploadMutation.onSuccess; onComplete is Home's () => setShowSetup(false)
ImageUploadOk(r) ==
  /\ r \in setupReqs /\ r.kind = "image"
  /\ imageId' = r.id
  /\ isReady' = ReadyOf(voiceId, cloneId, r.id)
  /\ showSetup' = FALSE
  /\ UNCHANGED << voiceId, cloneId, nreq >>
  /\ PanelRender(IF r.live THEN "complete" ELSE currentStep,
                 IF r.live THEN NoError ELSE error,
                 setupReqs \ {r})
  /\ SetupFrame

\* imageUploadMutation.onError
ImageUploadFail(r) ==
  /\ r \in setupReqs /\ r.kind = "image"
  /\ UNCHANGED << session, showSetup, nreq >>
  /\ PanelRender(currentStep,
                 IF r.live THEN "Image upload failed" ELSE error,
                 setupReqs \ {r})
  /\ SetupFrame

\* the start button of step complete: onClick={onComplete}
StartButton ==
  /\ currentStep = "complete"
  /\ showSetup' = FALSE
  /\ UNCHANGED << session, nreq >>
  /\ PanelKeep
  /\ SetupFrame

(***************************************************************************)
(* Home.                                                                   *)
(***************************************************************************)
\* the settings button, rendered while isReady
ToggleSetup ==
  /\ isReady
  /\ showSetup' = ~showSetup
  /\ UNCHANGED << session, mode, messages, isLoading, media, counters >>
  /\ RenderAll

\* the mode tabs, rendered with the main content
SetMode(m) ==
  /\ MainShown(showSetup, isReady)
  /\ mode' = m
  /\ UNCHANGED << session, messages, isLoading, media, showSetup, counters >>
  /\ RenderAll

\* handleReset: reset() of the store, then setShowSetup(true)
Reset ==
  /\ voiceId' = Null /\ cloneId' = Null /\ imageId' = Null
  /\ isReady' = FALSE
  /\ mode' = "auto"
  /\ messages' = << >>
  /\ isLoading' = FALSE
  /\ currentVideoUrl' = NoUrl /\ currentAudioUrl' = NoUrl
  /\ showSetup' = TRUE
  /\ UNCHANGED counters
  /\ RenderAll

\* a reload whose persisted part also holds the transcript
ReloadRestoresTranscript ==
  /\ UNCHANGED << voiceId, cloneId, imageId, messages, counters >>
  /\ isReady' = FALSE
  /\ mode' = "auto"
  /\ isLoading' = FALSE
  /\ currentVideoUrl' = NoUrl /\ currentAudioUrl' = NoUrl
  /\ showSetup' = ~isReady'
  /\ currentStep' = InitialStep(voiceId, cloneId, imageId)
  /\ error' = NoError
  /\ fileRejections' = NoRejections
  /\ setupReqs' = {}
  /\ input' = EmptyText /\ conversationId' = Null
  /\ isRecording' = FALSE /\ micPending' = FALSE /\ recClosure' = NoClosure
  /\ chatReqs' = {}
  /\ text' = EmptyText /\ previewOnly' = FALSE /\ history' = << >>
  /\ manualReqs' = {}
  /\ isPlaying' = FALSE /\ isMuted' = FALSE
  /\ videoPlaying' = FALSE /\ videoMuted' = FALSE
  /\ audioPlaying' = FALSE /\ audioMuted' = FALSE

\* A page reload: the store is created anew and the persisted part
\* (partialize: voiceId, cloneId, imageId) is merged over its initial state;
\* every component is mounted anew and no response of the old page arrives.
Reload ==
  /\ UNCHANGED << voiceId, cloneId, imageId, counters >>
  /\ isReady' = FALSE
  /\ mode' = "auto"
  /\ messages' = << >>
  /\ isLoading' = FALSE
  /\ currentVideoUrl' = NoUrl /\ currentAudioUrl' = NoUrl
  /\ showSetup' = ~isReady'
  /\ currentStep' = InitialStep(voiceId, cloneId, imageId)
  /\ error' = NoError
  /\ fileRejections' = NoRejections
  /\ setupReqs' = {}
  /\ input' = EmptyText /\ conversationId' = Null
  /\ isRecording' = FALSE /\ micPending' = FALSE /\ recClosure' = NoClosure
  /\ chatReqs' = {}
  /\ text' = EmptyText /\ previewOnly' = FALSE /\ history' = << >>
  /\ manualReqs' = {}
  /\ isPlaying' = FALSE /\ isMuted' = FALSE
  /\ videoPlaying' = FALSE /\ videoMuted' = FALSE
  /\ audioPlaying' = FALSE /\ audioMuted' = FALSE

(***************************************************************************)
(* ChatInterface.                                                          *)
(***************************************************************************)
ChatMounted == ChatShown(showSetup, isReady, mode)

ERROR_TEXT == "error"

PLACEHOLDER == "placeholder"

\* a ChatMessage: kind tells a typed text, a transcription, the placeholder
\* of a voice input, a reply of the service and the generic error message
\* apart; req is the exchange a reply or transcription belongs to
Message(role, kind, txt, req, video, audio) ==
  [role |-> role, kind |-> kind, text |-> txt, req |-> req,
   video |-> video, audio |-> audio]

ErrorMessage == Message("assistant", ERROR_TEXT, EmptyText, Null, NoUrl, NoUrl)

\* the responses the chat service can give to exchange r: it echoes the
\* conversation id of the request or assigns one; the reply carries a video
\* URL, an audio URL, both or none; a voice exchange may lack a transcription
ChatResponses(r) ==
  { [conv |-> IF r.conv # Null THEN r.conv ELSE r.id,
     video |-> v, audio |-> a, transcription |-> t] :
      v \in {NoUrl, VideoUrl("chat", r.id)},
      a \in {NoUrl, AudioUrl("chat", r.id)},
      t \in IF r.kind = "voice" THEN BOOLEAN ELSE {FALSE} }

\* what a handler of the chat leaves alone outside the chat
ChatFrame ==
  /\ UNCHANGED << session, mode, showSetup, nreq, ntask, clock >>
  /\ PanelKeep /\ ManualKeep

\* the text input's onChange; the input is disabled while isLoading or
\* isRecording
TypeInput(t) ==
  /\ ChatMounted /\ ~isLoading /\ ~isRecording
  /\ UNCHANGED << messages, isLoading, media, nchat >>
  /\ ChatFrame
  /\ ChatRender(t, conversationId, isRecording, micPending, recClosure, chatReqs)
  /\ AvatarKeep

\* a handleSend that tests only isLoading
SendAcceptedBlank(inp, loading) == ~loading

\* handleSend returns at once on an empty input or while isLoading
SendAccepted(inp, loading) == ~IsBlank(inp) /\ ~loading

\* handleSend, with sendMessageMutation.onMutate
Send ==
  /\ ChatMounted
  /\ IF SendAccepted(input, isLoading)
       THEN /\ messages' = Append(messages,
                 Message("user", "typed", Trim(input), Null, NoUrl, NoUrl))
            /\ isLoading' = TRUE
            /\ nchat' = nchat + 1
            /\ UNCHANGED media
            /\ ChatFrame
            /\ ChatRender(EmptyText, conversationId, isRecording, micPending,
                 recClosure,
                 chatReqs \cup {[id |-> nchat + 1, kind |-> "text",
                                 stage |-> "sent", conv |-> conversationId,
                                 clone |-> cloneId, image |-> imageId,
                                 live |-> TRUE]})
            /\ AvatarKeep
       ELSE UNCHANGED vars

\* the media a completed text exchange hands to the store
ChatMedia(resp) ==
  IF resp.video # NoUrl THEN << resp.video, currentAudioUrl >>
  ELSE IF resp.audio # NoUrl THEN << currentVideoUrl, resp.audio >>
  ELSE << currentVideoUrl, currentAudioUrl >>

\* sendMessageMutation.onSuccess and onSettled
SendOk(r, resp) ==
  /\ r \in chatReqs /\ r.kind = "text"
  /\ messages' = Append(messages,
       Message("assistant", "reply", EmptyText, r.id, resp.video, resp.audio))
  /\ currentVideoUrl' = ChatMedia(resp)[1]
  /\ currentAudioUrl' = ChatMedia(resp)[2]
  /\ isLoading' = FALSE
  /\ UNCHANGED nchat
  /\ ChatFrame
  /\ ChatRender(input, IF r.live THEN resp.conv ELSE conversationId,
       isRecording, micPending, recClosure, chatReqs \ {r})
  /\ AvatarKeep

\* an onError that puts the error Turn in the place of the last Turn
SendFailRollsBack(r) ==
  /\ r \in chatReqs /\ r.kind = "text"
  /\ messages' = IF messages = << >> THEN << ErrorMessage >>
                  ELSE [messages EXCEPT ![Len(messages)] = ErrorMessage]
  /\ isLoading' = FALSE
  /\ UNCHANGED << media, nchat >>
  /\ ChatFrame
  /\ ChatRender(input, conversationId, isRecording, micPending, recClosure,
       chatReqs \ {r})
  /\ AvatarKeep

\* a sendMessageMutation.onError that also empties the playback slot
SendFailClearsMedia(r) ==
  /\ r \in chatReqs /\ r.kind = "text"
  /\ messages' = Append(messages, ErrorMessage)
  /\ isLoading' = FALSE
  /\ currentVideoUrl' = NoUrl /\ currentAudioUrl' = NoUrl
  /\ UNCHANGED nchat
  /\ ChatFrame
  /\ ChatRender(input, conversationId, isRecording, micPending, recClosure,
       chatReqs \ {r})
  /\ AvatarKeep

\* sendMessageMutation.onError and onSettled
SendFail(r) ==
  /\ r \in chatReqs /\ r.kind = "text"
  /\ messages' = Append(messages, ErrorMessage)
  /\ isLoading' = FALSE
  /\ UNCHANGED << media, nchat >>
  /\ ChatFrame
  /\ ChatRender(input, conversationId, isRecording, micPending, recClosure,
       chatReqs \ {r})
  /\ AvatarKeep

\* startRecording up to its await of getUserMedia; the button is disabled
\* while isLoading and shows the stop control while isRecording.  (A second
\* click while the permission request is still pending is left out.)
StartRecording ==
  /\ ChatMounted /\ ~isLoading /\ ~isRecording /\ ~micPending
  /\ UNCHANGED << messages, isLoading, media, nchat >>
  /\ ChatFrame
  /\ ChatRender(input, conversationId, FALSE, TRUE,
       [conv |-> conversationId, clone |-> cloneId, image |-> imageId], chatReqs)
  /\ AvatarKeep

\* getUserMedia resolves: the recorder is started and setIsRecording(true)
MicGranted ==
  /\ micPending
  /\ UNCHANGED << messages, isLoading, media, nchat >>
  /\ ChatFrame
  /\ ChatRender(input, conversationId, TRUE, FALSE, recClosure, chatReqs)
  /\ AvatarKeep

\* getUserMedia rejects: the catch block only logs
MicDenied ==
  /\ micPending
  /\ UNCHANGED << messages, isLoading, media, nchat >>
  /\ ChatFrame
  /\ ChatRender(input, conversationId, FALSE, FALSE, NoClosure, chatReqs)
  /\ AvatarKeep

\* stopRecording: MediaRecorder.stop() queues the stop event
StopRecording ==
  /\ ChatMounted /\ isRecording /\ ~isLoading
  /\ nchat' = nchat + 1
  /\ UNCHANGED << messages, isLoading, media >>
  /\ ChatFrame
  /\ ChatRender(input, conversationId, FALSE, FALSE, NoClosure,
       chatReqs \cup {[id |-> nchat + 1, kind |-> "voice", stage |-> "queued",
                       conv |-> recClosure.conv, clone |-> recClosure.clone,
                       image |-> recClosure.image, live |-> TRUE]})
  /\ AvatarKeep

\* mediaRecorder.onstop up to its await of chatApi.sendVoice
OnStop(r) ==
  /\ r \in chatReqs /\ r.kind = "voice" /\ r.stage = "queued"
  /\ isLoading' = TRUE
  /\ UNCHANGED << messages, media, nchat >>
  /\ ChatFrame
  /\ ChatRender(input, conversationId, isRecording, micPending, recClosure,
       (chatReqs \ {r}) \cup {[r EXCEPT !.stage = "sent"]})
  /\ AvatarKeep

\* an onstop that appends the assistant Turn only
VoiceOkWithoutUserTurn(r, resp) ==
  /\ r \in chatReqs /\ r.kind = "voice" /\ r.stage = "sent"
  /\ messages' = Append(messages,
       Message("assistant", "reply", EmptyText, r.id, resp.video, resp.audio))
  /\ currentVideoUrl' = IF resp.video # NoUrl THEN resp.video ELSE currentVideoUrl
  /\ UNCHANGED currentAudioUrl
  /\ isLoading' = FALSE
  /\ UNCHANGED nchat
  /\ ChatFrame
  /\ ChatRender(input, IF r.live THEN resp.conv ELSE conversationId,
       isRecording, micPending, recClosure, chatReqs \ {r})
  /\ AvatarKeep

\* mediaRecorder.onstop after sendVoice has answered: try and finally
VoiceOk(r, resp) ==
  /\ r \in chatReqs /\ r.kind = "voice" /\ r.stage = "sent"
  /\ messages' = messages \o
       << Message("user", IF resp.transcription THEN "transcription" ELSE PLACEHOLDER,
                  EmptyText, r.id, NoUrl, NoUrl),
          Message("assistant", "reply", EmptyText, r.id, resp.video, resp.audio) >>
  /\ currentVideoUrl' = IF resp.video # NoUrl THEN resp.video ELSE currentVideoUrl
  /\ UNCHANGED currentAudioUrl
  /\ isLoading' = FALSE
  /\ UNCHANGED nchat
  /\ ChatFrame
  /\ ChatRender(input, IF r.live THEN resp.conv ELSE conversationId,
       isRecording, micPending, recClosure, chatReqs \ {r})
  /\ AvatarKeep

\* mediaRecorder.onstop after sendVoice has failed: catch and finally
VoiceFail(r) ==
  /\ r \in chatReqs /\ r.kind = "voice" /\ r.stage = "sent"
  /\ messages' = Append(messages, ErrorMessage)
  /\ isLoading' = FALSE
  /\ UNCHANGED << media, nchat >>
  /\ ChatFrame
  /\ ChatRender(input, conversationId, isRecording, micPending, recClosure,
       chatReqs \ {r})
  /\ AvatarKeep

\* a clearChat that leaves the audio reference alone
ClearChatKeepsAudio ==
  /\ ChatMounted /\ Len(messages) > 0
  /\ messages' = << >>
  /\ currentVideoUrl' = NoUrl
  /\ UNCHANGED << currentAudioUrl, isLoading, nchat >>
  /\ ChatFrame
  /\ ChatRender(input, Null, isRecording, micPending, recClosure, chatReqs)
  /\ AvatarKeep

\* clearChat; the button is rendered while there are messages
ClearChat ==
  /\ ChatMounted /\ Len(messages) > 0
  /\ messages' = << >>
  /\ currentVideoUrl' = NoUrl /\ currentAudioUrl' = NoUrl
  /\ UNCHANGED << isLoading, nchat >>
  /\ ChatFrame
  /\ ChatRender(input, Null, isRecording, micPending, recClosure, chatReqs)
  /\ AvatarKeep

(***************************************************************************)
(* ManualInput.                                                            *)
(***************************************************************************)
ManualMounted == ManualShown(showSetup, isReady, mode)

\* the history keeps the new entry and the first nine of the old ones, ten
\* entries in all
HISTORY_KEPT == 9

HISTORY_LIMIT == 10

\* speakMutation.isPending || previewMutation.isPending of the mounted
\* component
ManualBusy == \E r \in manualReqs : r.live

\* action buttons that stay enabled while a request is pending
ButtonEnabledWhilePending(txt, busy) == ~IsBlank(txt)

\* disabled={!text.trim() || isLoading} of the two action buttons
ButtonEnabled(txt, busy) == ~IsBlank(txt) /\ ~busy

\* the responses the manual service can give to speak request r: a status
\* and, once completed, an audio URL and (unless audio only was asked for) a
\* video URL
SpeakResponses(r) ==
  { [status |-> "pending", video |-> NoUrl, audio |-> NoUrl],
    [status |-> "failed", video |-> NoUrl, audio |-> NoUrl],
    [status |-> "completed", video |-> NoUrl, audio |-> AudioUrl("manual", r.id)] }
  \cup
  { [status |-> "completed", video |-> VideoUrl("manual", r.id), audio |-> a] :
      a \in IF r.previewOnly THEN {} ELSE {NoUrl, AudioUrl("manual", r.id)} }

\* what a handler of the manual input leaves alone outside it
ManualFrame ==
  /\ UNCHANGED << session, mode, messages, showSetup, nreq, nchat >>
  /\ PanelKeep /\ ChatKeep

\* the text area's onChange; the text area is disabled while a request of
\* this component is pending
TypeText(t) ==
  /\ ManualMounted /\ ~ManualBusy
  /\ UNCHANGED << isLoading, media, ntask, clock >>
  /\ ManualFrame
  /\ ManualRender(Slice(t, MAX_CHARS), previewOnly, history, manualReqs)
  /\ AvatarKeep

\* the preview-only check box
SetPreviewOnly(b) ==
  /\ ManualMounted
  /\ UNCHANGED << isLoading, media, ntask, clock >>
  /\ ManualFrame
  /\ ManualRender(text, b, history, manualReqs)
  /\ AvatarKeep

ManualReq(kind) ==
  [id |-> ntask + 1, kind |-> kind, text |-> Trim(text), clone |-> cloneId,
   image |-> imageId, previewOnly |-> previewOnly, live |-> TRUE]

\* handleSpeak, with speakMutation.onMutate
Speak ==
  /\ ManualMounted /\ ButtonEnabled(text, ManualBusy)
  /\ isLoading' = TRUE
  /\ ntask' = ntask + 1
  /\ UNCHANGED << media, clock >>
  /\ ManualFrame
  /\ ManualRender(text, previewOnly, history, manualReqs \cup {ManualReq("speak")})
  /\ AvatarKeep

\* a history that keeps every old entry
AddToHistoryUncut(entry, prev) == << entry >> \o prev

\* setHistory((prev) => [entry, ...prev.slice(0, 9)])
AddToHistory(entry, prev) ==
  << entry >> \o SubSeq(prev, 1, Min(HISTORY_KEPT, Len(prev)))

\* the media a completed speak or a replayed history entry hands to the store
ManualMedia(item) ==
  IF item.video # NoUrl THEN << item.video, currentAudioUrl >>
  ELSE IF item.audio # NoUrl THEN << currentVideoUrl, item.audio >>
  ELSE << currentVideoUrl, currentAudioUrl >>

\* a speakMutation.onSuccess that leaves the text buffer as typed
SpeakOkKeepsText(r, resp) ==
  /\ r \in manualReqs /\ r.kind = "speak"
  /\ currentVideoUrl' = ManualMedia(resp)[1]
  /\ currentAudioUrl' = ManualMedia(resp)[2]
  /\ isLoading' = FALSE
  /\ clock' = IF r.live THEN clock + 1 ELSE clock
  /\ UNCHANGED ntask
  /\ ManualFrame
  /\ IF r.live
       THEN ManualRender(text, previewOnly,
              AddToHistory([task_id |-> r.id, text |-> r.text,
                            status |-> resp.status, video |-> resp.video,
                            audio |-> resp.audio, timestamp |-> clock + 1],
                           history),
              manualReqs \ {r})
       ELSE ManualRender(text, previewOnly, history, manualReqs \ {r})
  /\ AvatarKeep

\* speakMutation.onSuccess and onSettled
SpeakOk(r, resp) ==
  /\ r \in manualReqs /\ r.kind = "speak"
  /\ currentVideoUrl' = ManualMedia(resp)[1]
  /\ currentAudioUrl' = ManualMedia(resp)[2]
  /\ isLoading' = FALSE
  /\ clock' = IF r.live THEN clock + 1 ELSE clock
  /\ UNCHANGED ntask
  /\ ManualFrame
  /\ IF r.live
       THEN ManualRender(EmptyText, previewOnly,
              AddToHistory([task_id |-> r.id, text |-> r.text,
                            status |-> resp.status, video |-> resp.video,
                            audio |-> resp.audio, timestamp |-> clock + 1],
                           history),
              manualReqs \ {r})
       ELSE ManualRender(text, previewOnly, history, manualReqs \ {r})
  /\ AvatarKeep

\* a speakMutation without onSettled: a failure leaves the loading flag set
SpeakFailStaysLoading(r) ==
  /\ r \in manualReqs /\ r.kind = "speak"
  /\ UNCHANGED << isLoading, media, ntask, clock >>
  /\ ManualFrame
  /\ ManualRender(text, previewOnly, history, manualReqs \ {r})
  /\ AvatarKeep

\* speakMutation.onError and onSettled
SpeakFail(r) ==
  /\ r \in manualReqs /\ r.kind = "speak"
  /\ isLoading' = FALSE
  /\ UNCHANGED << media, ntask, clock >>
  /\ ManualFrame
  /\ ManualRender(text, previewOnly, history, manualReqs \ {r})
  /\ AvatarKeep

\* handlePreview
Preview ==
  /\ ManualMounted /\ ButtonEnabled(text, ManualBusy)
  /\ ntask' = ntask + 1
  /\ UNCHANGED << isLoading, media, clock >>
  /\ ManualFrame
  /\ ManualRender(text, previewOnly, history, manualReqs \cup {ManualReq("preview")})
  /\ AvatarKeep

\* an onSuccess that empties the text area as that of speak does
PreviewOkClearsText(r) ==
  /\ r \in manualReqs /\ r.kind = "preview"
  /\ currentAudioUrl' = AudioUrl("manual", r.id)
  /\ UNCHANGED << currentVideoUrl, isLoading, ntask, clock >>
  /\ ManualFrame
  /\ ManualRender(EmptyText, previewOnly, history, manualReqs \ {r})
  /\ AvatarKeep

\* previewMutation.onSuccess
PreviewOk(r) ==
  /\ r \in manualReqs /\ r.kind = "preview"
  /\ currentAudioUrl' = AudioUrl("manual", r.id)
  /\ UNCHANGED << currentVideoUrl, isLoading, ntask, clock >>
  /\ ManualFrame
  /\ ManualRender(text, previewOnly, history, manualReqs \ {r})
  /\ AvatarKeep

\* previewMutation has no onError
PreviewFail(r) ==
  /\ r \in manualReqs /\ r.kind = "preview"
  /\ UNCHANGED << isLoading, media, ntask, clock >>
  /\ ManualFrame
  /\ ManualRender(text, previewOnly, history, manualReqs \ {r})
  /\ AvatarKeep

\* a replay that also puts the entry's text back into the text buffer
PlayFromHistoryRefillsText(i) ==
  /\ ManualMounted /\ i \in 1..Len(history)
  /\ currentVideoUrl' = ManualMedia(history[i])[1]
  /\ currentAudioUrl' = ManualMedia(history[i])[2]
  /\ UNCHANGED << isLoading, ntask, clock >>
  /\ ManualFrame
  /\ ManualRender(history[i].text, previewOnly, history, manualReqs)
  /\ AvatarKeep

\* playFromHistory
PlayFromHistory(i) ==
  /\ ManualMounted /\ i \in 1..Len(history)
  /\ currentVideoUrl' = ManualMedia(history[i])[1]
  /\ currentAudioUrl' = ManualMedia(history[i])[2]
  /\ UNCHANGED << isLoading, ntask, clock >>
  /\ ManualFrame /\ ManualKeep
  /\ AvatarKeep

(***************************************************************************)
(* AvatarDisplay.                                                          *)
(***************************************************************************)
AvatarMounted == MainShown(showSetup, isReady)

\* what a handler of the display leaves alone outside it
AvatarFrame ==
  /\ UNCHANGED << session, mode, messages, isLoading, media, showSetup, counters >>
  /\ PanelKeep /\ ChatKeep /\ ManualKeep

\* togglePlayPause; the controls are rendered while currentVideoUrl is set
TogglePlayPause ==
  /\ AvatarMounted /\ VideoRendered(currentVideoUrl)
  /\ AvatarFrame
  /\ AvatarRender(~isPlaying, isMuted, ~isPlaying, videoMuted, audioPlaying, audioMuted)

\* toggleMute; audioRef.current is null while the video element is rendered
ToggleMute ==
  /\ AvatarMounted /\ VideoRendered(currentVideoUrl)
  /\ AvatarFrame
  /\ AvatarRender(isPlaying, ~isMuted, videoPlaying, ~isMuted, audioPlaying,
       IF AudioRendered(currentVideoUrl, currentAudioUrl) THEN ~isMuted ELSE audioMuted)

\* handleVideoEnd
VideoEnded ==
  /\ videoPlaying
  /\ AvatarFrame
  /\ AvatarRender(FALSE, isMuted, FALSE, videoMuted, audioPlaying, audioMuted)

\* the audio element reaches its end
AudioEnded ==
  /\ audioPlaying
  /\ AvatarFrame
  /\ AvatarRender(isPlaying, isMuted, videoPlaying, videoMuted, FALSE, audioMuted)

(***************************************************************************)
(* The application.                                                        *)
(***************************************************************************)
Init ==
  /\ voiceId = Null /\ cloneId = Null /\ imageId = Null
  /\ isReady = FALSE
  /\ mode = "auto"
  /\ messages = << >>
  /\ isLoading = FALSE
  /\ currentVideoUrl = NoUrl /\ currentAudioUrl = NoUrl
  /\ showSetup = TRUE
  /\ currentStep = "voice"
  /\ error = NoError
  /\ fileRejections = NoRejections
  /\ setupReqs = {}
  /\ nreq = 0
  /\ input = EmptyText /\ conversationId = Null
  /\ isRecording = FALSE /\ micPending = FALSE /\ recClosure = NoClosure
  /\ chatReqs = {} /\ nchat = 0
  /\ text = EmptyText /\ previewOnly = FALSE /\ history = << >>
  /\ manualReqs = {} /\ ntask = 0
  /\ clock = 0
  /\ isPlaying = FALSE /\ isMuted = FALSE
  /\ videoPlaying = FALSE /\ videoMuted = FALSE
  /\ audioPlaying = FALSE /\ audioMuted = FALSE

\* The state in which a first setup has just been completed: one voice upload,
\* one clone, one image upload, the panel closed by onComplete.
ReadyInit(m) ==
  /\ voiceId = 1 /\ cloneId = ServerClone(1) /\ imageId = 3
  /\ isReady = TRUE
  /\ mode = m
  /\ messages = << >>
  /\ isLoading = FALSE
  /\ currentVideoUrl = NoUrl /\ currentAudioUrl = NoUrl
  /\ showSetup = FALSE
  /\ currentStep = "unmounted"
  /\ error = NoError
  /\ fileRejections = NoRejections
  /\ setupReqs = {}
  /\ nreq = 3
  /\ input = EmptyText /\ conversationId = Null
  /\ isRecording = FALSE /\ micPending = FALSE /\ recClosure = NoClosure
  /\ chatReqs = {} /\ nchat = 0
  /\ text = EmptyText /\ previewOnly = FALSE /\ history = << >>
  /\ manualReqs = {} /\ ntask = 0
  /\ clock = 0
  /\ isPlaying = FALSE /\ isMuted = FALSE
  /\ videoPlaying = FALSE /\ videoMuted = FALSE
  /\ audioPlaying = FALSE /\ audioMuted = FALSE

SetupNext ==
  \/ \E f \in Files : (VoiceAccepts(f) => nreq < MaxSetupReqs) /\ DropVoice(f)
  \/ \E r \in setupReqs : VoiceUploadOk(r)
  \/ \E r \in setupReqs : VoiceUploadFail(r)
  \/ (voiceId # Null => nreq < MaxSetupReqs) /\ CreateClone
  \/ \E r \in setupReqs : CloneOk(r)
  \/ \E r \in setupReqs : CloneFail(r)
  \/ \E f \in Files : (ImageAccepts(f) => nreq < MaxSetupReqs) /\ DropImage(f)
  \/ \E r \in setupReqs : ImageUploadOk(r)
  \/ \E r \in setupReqs : ImageUploadFail(r)
  \/ StartButton
  \/ ToggleSetup
  \/ Reset
  \/ Reload

SwitchMode == \E m \in {"auto", "manual"} : SetMode(m)

TextChatNext ==
  \/ \E t \in TextInputs : TypeInput(t)
  \/ (SendAccepted(input, isLoading) => nchat < MaxChatReqs) /\ Send
  \/ \E r \in chatReqs : \E resp \in ChatResponses(r) : SendOk(r, resp)
  \/ \E r \in chatReqs : SendFail(r)
  \/ ClearChat

VoiceChatNext ==
  \/ nchat < MaxChatReqs /\ StartRecording
  \/ MicGranted
  \/ MicDenied
  \/ StopRecording
  \/ \E r \in chatReqs : OnStop(r)
  \/ \E r \in chatReqs : \E resp \in ChatResponses(r) : VoiceOk(r, resp)
  \/ \E r \in chatReqs : VoiceFail(r)

ChatNext == TextChatNext \/ VoiceChatNext

SpeakNext ==
  \/ \E t \in TextInputs : TypeText(t)
  \/ \E b \in BOOLEAN : SetPreviewOnly(b)
  \/ ntask < MaxTasks /\ Speak
  \/ \E r \in manualReqs : \E resp \in SpeakResponses(r) : SpeakOk(r, resp)
  \/ \E r \in manualReqs : SpeakFail(r)
  \/ \E i \in 1..Len(history) : PlayFromHistory(i)

PreviewNext ==
  \/ ntask < MaxTasks /\ Preview
  \/ \E r \in manualReqs : PreviewOk(r)
  \/ \E r \in manualReqs : PreviewFail(r)

ManualNext == SpeakNext \/ PreviewNext

AvatarNext ==
  \/ TogglePlayPause
  \/ ToggleMute
  \/ VideoEnded
  \/ AudioEnded

\* the whole application
Next ==
  \/ SetupNext
  \/ SwitchMode
  \/ ChatNext
  \/ ManualNext
  \/ AvatarNext

Spec == Init /\ [][Next]_vars

(***************************************************************************)
(* Specifications of parts of the application.  Each leaves out only       *)
(* handlers that write none of the variables its properties read and that  *)
(* the guards of the handlers it keeps do not read; those that start from  *)
(* ReadyInit start in a state the setup reaches.                           *)
(***************************************************************************)
\* the session store, Home's panel gating and the setup panel
SpecSetup == Init /\ [][SetupNext]_vars

\* one response to a chat exchange and one to a speak request, for the
\* specifications whose properties do not read what a response carries
PlainChatResponse(r) ==
  [conv |-> IF r.conv # Null THEN r.conv ELSE r.id,
   video |-> VideoUrl("chat", r.id), audio |-> NoUrl, transcription |-> TRUE]

PlainSpeakResponse(r) ==
  [status |-> "completed", video |-> VideoUrl("manual", r.id), audio |-> NoUrl]

PlainText == [lead |-> 1, core |-> 2, trail |-> 1]

\* setup, gating and every submission of the two flows
GateNext ==
  \/ SetupNext
  \/ SwitchMode
  \/ TypeInput(PlainText)
  \/ (SendAccepted(input, isLoading) => nchat + ntask < MaxGateReqs) /\ Send
  \/ \E r \in chatReqs : SendOk(r, PlainChatResponse(r))
  \/ \E r \in chatReqs : SendFail(r)
  \/ nchat + ntask < MaxGateReqs /\ StartRecording
  \/ MicGranted
  \/ MicDenied
  \/ StopRecording
  \/ \E r \in chatReqs : OnStop(r)
  \/ \E r \in chatReqs : VoiceOk(r, PlainChatResponse(r))
  \/ \E r \in chatReqs : VoiceFail(r)
  \/ TypeText(PlainText)
  \/ nchat + ntask < MaxGateReqs /\ Speak
  \/ \E r \in manualReqs : SpeakOk(r, PlainSpeakResponse(r))
  \/ \E r \in manualReqs : SpeakFail(r)
  \/ nchat + ntask < MaxGateReqs /\ Preview
  \/ \E r \in manualReqs : PreviewOk(r)
  \/ \E r \in manualReqs : PreviewFail(r)

SpecGate == Init /\ [][GateNext]_vars

\* the reply shapes that differ in what reaches the playback slot
MediaChatResponses(r) ==
  { resp \in ChatResponses(r) :
      /\ r.kind = "voice" => resp.transcription
      /\ resp.video # NoUrl => resp.audio # NoUrl }

MediaSpeakResponses(r) ==
  { resp \in SpeakResponses(r) :
      resp.status = "completed" /\ (resp.video # NoUrl => resp.audio # NoUrl) }

\* the conversation flow and the mode tabs, after a completed setup
SpecChatNext ==
  \/ SwitchMode
  \/ \E t \in TextInputs : TypeInput(t)
  \/ (SendAccepted(input, isLoading) => nchat < MaxChatReqs) /\ Send
  \/ \E r \in chatReqs : \E resp \in MediaChatResponses(r) : SendOk(r, resp)
  \/ \E r \in chatReqs : SendFail(r)
  \/ ClearChat
  \/ nchat < MaxChatReqs /\ StartRecording
  \/ MicGranted
  \/ MicDenied
  \/ StopRecording
  \/ \E r \in chatReqs : OnStop(r)
  \/ \E r \in chatReqs : \E resp \in MediaChatResponses(r) : VoiceOk(r, resp)
  \/ \E r \in chatReqs : VoiceFail(r)

SpecChat == ReadyInit("auto") /\ [][SpecChatNext]_vars

\* replies with an audio URL, with and without a video URL and, to a voice
\* exchange, with and without a transcription
TurnResponses(r) == { resp \in ChatResponses(r) : resp.audio # NoUrl }

\* one mounted ChatInterface: text and voice exchanges, answered or failed,
\* and clearChat
SpecTurnsNext ==
  \/ TypeInput(PlainText)
  \/ (SendAccepted(input, isLoading) => nchat < MaxTurnReqs) /\ Send
  \/ \E r \in chatReqs : \E resp \in TurnResponses(r) : SendOk(r, resp)
  \/ \E r \in chatReqs : SendFail(r)
  \/ ClearChat
  \/ nchat < MaxTurnReqs /\ StartRecording
  \/ MicGranted
  \/ MicDenied
  \/ StopRecording
  \/ \E r \in chatReqs : OnStop(r)
  \/ \E r \in chatReqs : \E resp \in TurnResponses(r) : VoiceOk(r, resp)
  \/ \E r \in chatReqs : VoiceFail(r)

SpecTurns == ReadyInit("auto") /\ [][SpecTurnsNext]_vars

\* the manual flow and the mode tabs, after a completed setup
SpecManualNext ==
  \/ SwitchMode
  \/ \E t \in TextInputs : TypeText(t)
  \/ \E b \in BOOLEAN : SetPreviewOnly(b)
  \/ ntask < MaxTasks /\ Speak
  \/ \E r \in manualReqs : \E resp \in MediaSpeakResponses(r) : SpeakOk(r, resp)
  \/ \E r \in manualReqs : SpeakFail(r)
  \/ \E i \in 1..Len(history) : PlayFromHistory(i)
  \/ ntask < MaxTasks /\ Preview
  \/ \E r \in manualReqs : PreviewOk(r)
  \/ \E r \in manualReqs : PreviewFail(r)

SpecManual == ReadyInit("manual") /\ [][SpecManualNext]_vars

\* the answers to a speak request that do not report a failure: the task is
\* accepted and still pending, or completed with its video
JourneyResponses(r) ==
  { resp \in SpeakResponses(r) : resp.status = "pending" \/ resp.video # NoUrl }

\* the manual service answers the speak request it was sent
SpeakAnswered ==
  \E r \in manualReqs : \E resp \in JourneyResponses(r) : SpeakOk(r, resp)

\* a first session: the setup wizard, then the manual flow, which the user
\* does not leave while a request is pending, and the player
JourneyNext ==
  \/ \E f \in Files : (VoiceAccepts(f) => nreq < MaxSetupReqs) /\ DropVoice(f)
  \/ \E r \in setupReqs : VoiceUploadOk(r)
  \/ \E r \in setupReqs : VoiceUploadFail(r)
  \/ (voiceId # Null => nreq < MaxSetupReqs) /\ CreateClone
  \/ \E r \in setupReqs : CloneOk(r)
  \/ \E r \in setupReqs : CloneFail(r)
  \/ \E f \in Files : (ImageAccepts(f) => nreq < MaxSetupReqs) /\ DropImage(f)
  \/ \E r \in setupReqs : ImageUploadOk(r)
  \/ \E r \in setupReqs : ImageUploadFail(r)
  \/ manualReqs = {} /\ SwitchMode
  \/ \E t \in TextInputs : TypeText(t)
  \/ \E b \in BOOLEAN : SetPreviewOnly(b)
  \/ ntask < MaxJourneyTasks /\ Speak
  \/ SpeakAnswered
  \/ TogglePlayPause
  \/ ToggleMute
  \/ VideoEnded

\* every request the manual service was sent is answered
SpecJourney == Init /\ [][JourneyNext]_vars /\ WF_vars(SpeakAnswered)

\* one mounted ManualInput fed with texts around the character cap
SpecTextNext ==
  \/ \E t \in CapInputs : TypeText(t)
  \/ \E b \in BOOLEAN : SetPreviewOnly(b)
  \/ ntask < MaxTextTasks /\ Speak
  \/ \E r \in manualReqs : SpeakOk(r, PlainSpeakResponse(r))
  \/ \E r \in manualReqs : SpeakFail(r)
  \/ ntask < MaxTextTasks /\ Preview
  \/ \E r \in manualReqs : PreviewOk(r)
  \/ \E r \in manualReqs : PreviewFail(r)

SpecText == ReadyInit("manual") /\ [][SpecTextNext]_vars

\* one mounted ManualInput through a long run of speak requests
SpecHistoryNext ==
  \/ TypeText(PlainText)
  \/ ntask < MaxHistoryTasks /\ Speak
  \/ \E r \in manualReqs : SpeakOk(r, PlainSpeakResponse(r))
  \/ \E r \in manualReqs : SpeakFail(r)

SpecHistory == ReadyInit("manual") /\ [][SpecHistoryNext]_vars

\* the writers of the two media references and the player: text exchanges
\* with every shape of reply, the manual flow, reset, the mode tabs and the
\* settings toggle. A voice exchange writes the video reference as a text
\* exchange whose reply has no audio does.
SpecMediaNext ==
  \/ SwitchMode
  \/ ToggleSetup
  \/ Reset
  \/ TypeInput(PlainText)
  \/ (SendAccepted(input, isLoading) => nchat + ntask < MaxMediaReqs) /\ Send
  \/ \E r \in chatReqs : \E resp \in ChatResponses(r) : SendOk(r, resp)
  \/ ClearChat
  \/ TypeText(PlainText)
  \/ nchat + ntask < MaxMediaReqs /\ Speak
  \/ \E r \in manualReqs : \E resp \in MediaSpeakResponses(r) : SpeakOk(r, resp)
  \/ nchat + ntask < MaxMediaReqs /\ Preview
  \/ \E r \in manualReqs : PreviewOk(r)
  \/ \E i \in 1..Len(history) : PlayFromHistory(i)
  \/ AvatarNext

SpecMedia == ReadyInit("auto") /\ [][SpecMediaNext]_vars

\* every submission of the two flows (text send, voice submit, speak,
\* preview) with its success and its failure, across mode switches
SpecOutcomesNext ==
  \/ SwitchMode
  \/ TypeInput(PlainText)
  \/ (SendAccepted(input, isLoading) => nchat + ntask < MaxOutcomeReqs) /\ Send
  \/ \E r \in chatReqs : \E resp \in MediaChatResponses(r) : SendOk(r, resp)
  \/ \E r \in chatReqs : SendFail(r)
  \/ nchat + ntask < MaxOutcomeReqs /\ StartRecording
  \/ MicGranted
  \/ StopRecording
  \/ \E r \in chatReqs : OnStop(r)
  \/ \E r \in chatReqs : \E resp \in MediaChatResponses(r) : VoiceOk(r, resp)
  \/ \E r \in chatReqs : VoiceFail(r)
  \/ TypeText(PlainText)
  \/ nchat + ntask < MaxOutcomeReqs /\ Speak
  \/ \E r \in manualReqs : \E resp \in MediaSpeakResponses(r) : SpeakOk(r, resp)
  \/ \E r \in manualReqs : SpeakFail(r)
  \/ nchat + ntask < MaxOutcomeReqs /\ Preview
  \/ \E r \in manualReqs : PreviewOk(r)
  \/ \E r \in manualReqs : PreviewFail(r)

SpecOutcomes == ReadyInit("auto") /\ [][SpecOutcomesNext]_vars

\* both flows on a set-up page, and the page reload
SpecReloadNext ==
  \/ SwitchMode
  \/ TypeInput(PlainText)
  \/ (SendAccepted(input, isLoading) => nchat + ntask < MaxReloadReqs) /\ Send
  \/ \E r \in chatReqs : \E resp \in MediaChatResponses(r) : SendOk(r, resp)
  \/ TypeText(PlainText)
  \/ nchat + ntask < MaxReloadReqs /\ Speak
  \/ \E r \in manualReqs : \E resp \in MediaSpeakResponses(r) : SpeakOk(r, resp)
  \/ Reload

SpecReload == ReadyInit("auto") /\ [][SpecReloadNext]_vars

\* the reloaded page with the one control its setup panel offers in step
\* complete; a user who wants to go on presses it
SpecReturnNext ==
  \/ SpecReloadNext
  \/ StartButton

SpecReturn ==
  ReadyInit("auto") /\ [][SpecReturnNext]_vars /\ WF_vars(StartButton)

\* both flows fed with a whitespace-only text and with a padded one
SpecBlankNext ==
  \/ SwitchMode
  \/ \E t \in TextInputs : TypeInput(t)
  \/ (SendAccepted(input, isLoading) => nchat + ntask < MaxBlankReqs) /\ Send
  \/ \E r \in chatReqs : SendOk(r, PlainChatResponse(r))
  \/ \E t \in TextInputs : TypeText(t)
  \/ nchat + ntask < MaxBlankReqs /\ Speak
  \/ \E r \in manualReqs : SpeakOk(r, PlainSpeakResponse(r))
  \/ nchat + ntask < MaxBlankReqs /\ Preview
  \/ \E r \in manualReqs : PreviewOk(r)

SpecBlank == ReadyInit("auto") /\ [][SpecBlankNext]_vars
\* ---------------------------------------------------------------------------
\* Properties
\* ---------------------------------------------------------------------------

AllIdsSet == voiceId # Null /\ cloneId # Null /\ imageId # Null

PanelMounted == currentStep # "unmounted"

\* a failed upload or clone request, or a drop the dropzone rejects
SetupFailure ==
  \/ \E r \in setupReqs : VoiceUploadFail(r) \/ CloneFail(r) \/ ImageUploadFail(r)
  \/ \E f \in Files : ~VoiceAccepts(f) /\ DropVoice(f)
  \/ \E f \in Files : ~ImageAccepts(f) /\ DropImage(f)

\* a step in which the stage shown is that of one and the same panel instance
SamePanel == PanelMounted /\ PanelMounted' /\ ~Reload

\* C1: in every reachable state of the session store, also the one restored
\* by a page reload, isReady is true exactly when voiceId, cloneId and
\* imageId are all non-null.
C1_ReadyIffAllIds == isReady <=> AllIdsSet

\* C2: the stage changes only voice -> clone on a successful voice upload,
\* clone -> image on a successful clone creation and image -> complete on a
\* successful image upload (reset apart), and a failed or rejected upload or
\* clone request leaves the stage and the stored identifiers unchanged.
C2_StagesInOrder ==
  [][ /\ (SamePanel /\ ~Reset /\ currentStep' # currentStep) =>
           \/ /\ currentStep = "voice" /\ currentStep' = "clone"
              /\ \E r \in setupReqs : VoiceUploadOk(r)
           \/ /\ currentStep = "clone" /\ currentStep' = "image"
              /\ \E r \in setupReqs : CloneOk(r)
           \/ /\ currentStep = "image" /\ currentStep' = "complete"
              /\ \E r \in setupReqs : ImageUploadOk(r)
      /\ SetupFailure => UNCHANGED << currentStep, voiceId, cloneId, imageId >>
    ]_vars

\* C3: once the stage has advanced it never moves back to an earlier stage
\* except through reset, whatever the order of the upload and clone responses.
C3_NoBackwardStage ==
  [][ (SamePanel /\ ~Reset) => StepRank(currentStep') >= StepRank(currentStep) ]_vars

\* C4: reset, from any stage and whether or not the panel is mounted, clears
\* the three identifiers and leaves the stage at voice.
C4_ResetToVoice ==
  [][ Reset => /\ voiceId' = Null /\ cloneId' = Null /\ imageId' = Null
               /\ currentStep' = "voice" ]_vars

\* C5: the stage shown is complete if and only if the three identifiers are
\* all non-null.
C5_CompleteIffAllIds ==
  PanelMounted => (currentStep = "complete" <=> AllIdsSet)

\* the identifiers a request of either flow was issued with are set; a preview
\* uses no image
CarriesIds(r) == r.clone # Null /\ (r.kind # "preview" => r.image # Null)

\* C6: the conversation and the manual input are mounted only while isReady
\* holds, with both identifiers they are handed set, and every chat, voice,
\* speak and preview request, and every recording in progress, carries a
\* non-null cloneId and, where it uses one, a non-null imageId.
C6_FlowsOnlyWhenReady ==
  /\ (ChatMounted \/ ManualMounted) =>
       isReady /\ cloneId # Null /\ imageId # Null
  /\ \A r \in chatReqs \cup manualReqs : CarriesIds(r)
  /\ (micPending \/ isRecording) =>
       recClosure.clone # Null /\ recClosure.image # Null

\* a voice exchange and, before it, its recording were issued with both ids
C6_Witness ==
  /\ isReady
  /\ \E r \in chatReqs : r.kind = "voice" /\ r.stage = "sent" /\ CarriesIds(r)

\* the unresolved requests of the mounted ManualInput
LiveManualReqs == { r \in manualReqs : r.live }

\* C7 (as stated): at most one speak or preview request is unresolved at any
\* time, so of two speak calls only one is ever in flight.
C7_OneUnresolved == Cardinality(manualReqs) <= 1

\* C7 (amended): at most one speak or preview request issued by the mounted
\* manual input is unresolved at any time: while one is, that input accepts
\* no further submission. A request left behind by an unmounted manual input
\* does not block the next one.
C7_OneUnresolvedPerInstance == Cardinality(LiveManualReqs) <= 1

\* a request is pending and the text area still holds a text to submit
C7_Witness ==
  ManualMounted /\ Cardinality(LiveManualReqs) = 1 /\ ~IsBlank(text)

\* the exchanges the mounted ChatInterface has sent to the service and whose
\* response it awaits
AwaitingExchanges == { r \in chatReqs : r.stage = "sent" /\ r.live }

\* C8: at most one exchange of the conversation, text or voice, awaits its
\* response at any time.
C8_OneExchange == Cardinality(AwaitingExchanges) <= 1

\* C9: while currentVideoUrl is non-null the audio element is neither
\* rendered nor playing, whatever currentAudioUrl is: the medium the display
\* presents is the video.
C9_VideoPrecedence ==
  currentVideoUrl # NoUrl =>
    /\ ~audioPlaying
    /\ ~(AvatarMounted /\ AudioRendered(currentVideoUrl, currentAudioUrl))

\* both references are set and the display plays the video
C9_Witness ==
  /\ currentVideoUrl # NoUrl /\ currentAudioUrl # NoUrl
  /\ AvatarMounted /\ videoPlaying /\ ~audioPlaying

HistoryNewestFirst ==
  \A i, j \in 1..Len(history) :
    i < j => history[i].timestamp > history[j].timestamp

\* C10: the manual history never holds more than HISTORY_LIMIT entries and is
\* ordered newest first; a completed speak puts its entry at the head, keeps
\* the order of the others, and on a full history drops the last, which is
\* the oldest, and no other.
C10_HistoryBounded ==
  /\ [](Len(history) <= HISTORY_LIMIT /\ HistoryNewestFirst)
  /\ [][ history' # history =>
           /\ Len(history') = Min(Len(history) + 1, HISTORY_LIMIT)
           /\ history'[1].timestamp = clock'
           /\ \A i \in 2..Len(history') : history'[i] = history[i - 1]
       ]_vars

\* the history is full and its first entries have been dropped
C10_Witness ==
  /\ Len(history) = HISTORY_LIMIT
  /\ history[HISTORY_LIMIT].timestamp > 1

\* the conversation is cleared: no Turn, no conversationId, no media reference
ConversationCleared ==
  /\ messages = << >> /\ conversationId = Null
  /\ currentVideoUrl = NoUrl /\ currentAudioUrl = NoUrl

ClearedWhileAwaiting ==
  /\ ChatMounted /\ ConversationCleared
  /\ chatReqs # {} /\ \A r \in chatReqs : r.kind = "text" /\ r.live

\* the response, or the failure, of an awaited exchange arrives
ExchangeSettles == chatReqs' # chatReqs /\ chatReqs' \subseteq chatReqs

\* C12: after the conversation is cleared while an exchange awaits its
\* response, the arrival of that response leaves the transcript empty,
\* conversationId null and both media references null.
C12_ClearedStaysCleared ==
  [][ (ClearedWhileAwaiting /\ ExchangeSettles) => ConversationCleared' ]_vars

\* p holds the first characters of t
IsPrefix(p, t) ==
  /\ p.lead <= t.lead /\ p.core <= t.core /\ p.trail <= t.trail
  /\ p.lead < t.lead => p.core = 0 /\ p.trail = 0
  /\ p.core < t.core => p.trail = 0

\* C13: the manual text buffer and every text submitted by speak or preview
\* hold at most MAX_CHARS characters, and an input change stores the first
\* MAX_CHARS characters of the value entered, all of it when it is shorter.
C13_TextCapped ==
  /\ [](/\ TextLen(text) <= MAX_CHARS
         /\ \A r \in manualReqs : TextLen(r.text) <= MAX_CHARS)
  /\ [][ \A t \in CapInputs :
           TypeText(t) => /\ IsPrefix(text', t)
                          /\ TextLen(text') = Min(TextLen(t), MAX_CHARS)
       ]_vars

\* a text over the cap with white space around it was cut and submitted
C13_Witness ==
  /\ text = [lead |-> 2, core |-> MAX_CHARS - 2, trail |-> 0]
  /\ \E r \in manualReqs : r.live /\ r.text = Trim(text)

\* the first speak of the session has been submitted, for a video
FirstSpeakSubmitted ==
  /\ history = << >>
  /\ \E r \in manualReqs : r.kind = "speak" /\ r.live /\ ~r.previewOnly

\* the video of the session's first task is the current video and is played,
\* and the history holds one entry
FirstVideoPlays ==
  /\ currentVideoUrl = VideoUrl("manual", 1)
  /\ Len(history) = 1
  /\ videoPlaying

\* C14: after setup, a manual speak submitted with previewOnly = false
\* eventually leads to its video being the current video reference and being
\* played, with one entry in the history.
C14_SpeakLeadsToVideo == FirstSpeakSubmitted ~> FirstVideoPlays

\* task k is in the history with the status it was acknowledged with
HasStatus(k, statuses) ==
  \E i \in 1..Len(history) :
    history[i].task_id = k /\ history[i].status \in statuses

\* C15: a task acknowledged with a non-terminal status is followed until it
\* is known to be completed or failed.
C15_PendingIsFollowed ==
  \A k \in 1..MaxJourneyTasks :
    HasStatus(k, {"pending", "processing"}) ~> HasStatus(k, {"completed", "failed"})

\* the transcript has gained exactly the Turns in added, at its end
Appended(added) == messages' = messages \o added

UserTurn(txt) == Message("user", "typed", txt, Null, NoUrl, NoUrl)

\* C16: an accepted text send appends the user Turn when the request is
\* issued; a successful response appends the assistant Turn of that exchange
\* and a failure appends the generic error Turn, in both cases after the
\* Turns already there, which are neither removed nor altered.
C16_UserTurnKept ==
  [][ /\ (\E r \in chatReqs' \ chatReqs : r.kind = "text")
           => Appended(<< UserTurn(Trim(input)) >>)
      /\ \A r \in chatReqs :
           /\ (\E resp \in ChatResponses(r) : SendOk(r, resp))
                => \E resp \in ChatResponses(r) :
                     Appended(<< Message("assistant", "reply", EmptyText, r.id,
                                         resp.video, resp.audio) >>)
           /\ SendFail(r) => Appended(<< ErrorMessage >>)
    ]_vars

\* a text exchange that was answered and one that failed, each user Turn
\* still in place before the Turn of its outcome
C16_Witness ==
  /\ Len(messages) = 4
  /\ messages[1].kind = "typed" /\ messages[2].kind = "reply"
  /\ messages[3].kind = "typed" /\ messages[4] = ErrorMessage

\* the transcript holds a reply of the service: the service has returned a
\* conversationId since the conversation was last cleared or reset
IdReturned == \E i \in 1..Len(messages) : messages[i].kind = "reply"

\* C17: once the service has returned a conversationId, every text or voice
\* exchange submitted before the conversation is cleared or reset carries a
\* conversationId.
C17_CarriesConversationId ==
  [][ IdReturned => \A r \in chatReqs' \ chatReqs : r.conv # Null ]_vars

\* the user Turn of a voice exchange: the transcription, or the placeholder
\* when the reply has none
VoiceUserTurn(r, resp) ==
  Message("user", IF resp.transcription THEN "transcription" ELSE PLACEHOLDER,
          EmptyText, r.id, NoUrl, NoUrl)

\* C18: a successful voice exchange appends exactly two Turns, the user Turn
\* with the transcription (the placeholder when there is none) and then the
\* assistant Turn; a failed voice exchange appends exactly one Turn, the
\* generic error Turn of the text path.
C18_VoiceTurns ==
  [][ \A r \in chatReqs :
        /\ (\E resp \in ChatResponses(r) : VoiceOk(r, resp))
             => \E resp \in ChatResponses(r) :
                  Appended(<< VoiceUserTurn(r, resp),
                              Message("assistant", "reply", EmptyText, r.id,
                                      resp.video, resp.audio) >>)
        /\ VoiceFail(r) => Appended(<< ErrorMessage >>)
    ]_vars

\* a voice exchange answered without transcription, then one that failed
C18_Witness ==
  /\ Len(messages) = 3 /\ nchat = 2 /\ chatReqs = {}
  /\ messages[1].kind = PLACEHOLDER /\ messages[1].req = 1
  /\ messages[2].kind = "reply" /\ messages[2].req = 1
  /\ messages[3] = ErrorMessage

\* a text send of the mounted ChatInterface awaits its response
TextSendPending ==
  \E r \in chatReqs : r.kind = "text" /\ r.stage = "sent" /\ r.live

\* C19: a recording and a pending text send are never both active.
C19_SendXorRecord == ~(isRecording /\ TextSendPending)

\* C20: a successful preview sets currentAudioUrl to the audio URL returned
\* for it and leaves currentVideoUrl, the history and the text buffer
\* unchanged.
C20_PreviewSetsAudioOnly ==
  [][ \A r \in manualReqs :
        PreviewOk(r) => /\ currentAudioUrl' = AudioUrl("manual", r.id)
                        /\ UNCHANGED << currentVideoUrl, history, text >>
    ]_vars

\* the preview of a second text has been answered while the video of the
\* first task is current: video, history and text are as they were
C20_Witness ==
  /\ ManualMounted /\ manualReqs = {}
  /\ currentAudioUrl = AudioUrl("manual", 2)
  /\ currentVideoUrl = VideoUrl("manual", 1)
  /\ Len(history) = 1 /\ ~IsBlank(text)

\* the entries of h from position a to position b
SubSeqOrEmpty(h, a, b) ==
  IF b < a THEN << >> ELSE SubSeq(h, a, b)

\* what speakMutation.onSuccess leaves behind in the component that
\* submitted r: one entry for the task at the head of the history, the
\* nine newest older entries after it, an empty text buffer
SpeakRecorded(r, resp) ==
  /\ Len(history') = Min(Len(history) + 1, HISTORY_LIMIT)
  /\ history'[1].task_id = r.id
  /\ history'[1].video = resp.video /\ history'[1].audio = resp.audio
  /\ SubSeqOrEmpty(history', 2, Len(history'))
       = SubSeqOrEmpty(history, 1, Len(history') - 1)
  /\ text' = EmptyText

\* the playback slot after a result that carries video and audio: the
\* video when present, otherwise the audio, otherwise nothing changes
MediaHandedOver(video, audio) ==
  IF video # NoUrl
    THEN currentVideoUrl' = video /\ currentAudioUrl' = currentAudioUrl
    ELSE IF audio # NoUrl
      THEN currentAudioUrl' = audio /\ currentVideoUrl' = currentVideoUrl
      ELSE UNCHANGED media

C22_ReplayOnlySetsMedia ==
  [][\A i \in 1..Len(history) :
       PlayFromHistory(i) =>
         /\ UNCHANGED << setupReqs, chatReqs, manualReqs, counters >>
         /\ UNCHANGED << history, text, previewOnly, isLoading >>
         /\ UNCHANGED << session, mode, messages, showSetup >>
         /\ MediaHandedOver(history[i].video, history[i].audio)]_vars

C22_Witness ==
  /\ ManualMounted /\ Len(history) = 2
  /\ history[1].video # NoUrl /\ history[2].video # NoUrl
  /\ currentVideoUrl = history[2].video

\* the media AvatarDisplay presents for a pair of references: the video
\* element when it is rendered, otherwise the audio element when it is
Presented(v, a) ==
  IF VideoRendered(v) THEN v
  ELSE IF AudioRendered(v, a) THEN a ELSE NoUrl

\* the reference a result delivers: its video, otherwise its audio
Delivered(video, audio) ==
  IF video # NoUrl THEN video ELSE audio

\* the step delivers a result with a media reference and that reference
\* is what AvatarDisplay presents afterwards
PresentsDelivered(video, audio) ==
  Delivered(video, audio) # NoUrl =>
    Presented(currentVideoUrl', currentAudioUrl') = Delivered(video, audio)

\* C23: after every completion (speak, text send) and every replay the
\* media presented is the reference that completion or replay delivered
\* (last write wins), also when it is audio-only and an earlier result
\* was a video
C23_LastWriteWins ==
  [][/\ \A r \in manualReqs : \A resp \in SpeakResponses(r) :
          SpeakOk(r, resp) => PresentsDelivered(resp.video, resp.audio)
     /\ \A r \in chatReqs : \A resp \in ChatResponses(r) :
          SendOk(r, resp) => PresentsDelivered(resp.video, resp.audio)
     /\ \A i \in 1..Len(history) :
          PlayFromHistory(i) =>
            PresentsDelivered(history[i].video, history[i].audio)]_vars

\* C24: in no reachable state are currentVideoUrl and currentAudioUrl
\* both set
C24_NeverBothSet ==
  ~(currentVideoUrl # NoUrl /\ currentAudioUrl # NoUrl)

\* C25: when a text send, a voice submit, a speak or a preview fails, the
\* failure handling changes neither currentVideoUrl nor currentAudioUrl
C25_FailureKeepsMedia ==
  [][/\ \A r \in chatReqs : (SendFail(r) \/ VoiceFail(r)) => UNCHANGED media
     /\ \A r \in manualReqs :
          (SpeakFail(r) \/ PreviewFail(r)) => UNCHANGED media]_vars

C25_Witness ==
  /\ Len(messages) >= 3
  /\ messages[Len(messages)] = ErrorMessage
  /\ currentVideoUrl # NoUrl
  /\ \E k \in 1..(Len(messages) - 1) : messages[k].video = currentVideoUrl

\* a task is abandoned when the component that submitted it was unmounted
Abandoned(r) == ~r.live

\* a task submitted by a component mounted now: it was submitted after
\* every abandoned task
NewerTaskSubmitted == \E q \in chatReqs \cup manualReqs : q.live

\* C26: once a newer task has been submitted, a response arriving for an
\* abandoned task changes neither the transcript, the history nor the
\* media references
C26_AbandonedResponseIgnored ==
  [][NewerTaskSubmitted =>
       /\ \A r \in chatReqs : \A resp \in ChatResponses(r) :
            (Abandoned(r) /\ (SendOk(r, resp) \/ VoiceOk(r, resp)))
              => UNCHANGED << messages, history, media >>
       /\ \A r \in chatReqs :
            (Abandoned(r) /\ (SendFail(r) \/ VoiceFail(r)))
              => UNCHANGED << messages, history, media >>
       /\ \A r \in manualReqs : \A resp \in SpeakResponses(r) :
            (Abandoned(r) /\ SpeakOk(r, resp))
              => UNCHANGED << messages, history, media >>
       /\ \A r \in manualReqs :
            (Abandoned(r) /\ (SpeakFail(r) \/ PreviewOk(r) \/ PreviewFail(r)))
              => UNCHANGED << messages, history, media >>]_vars

\* the response to request r is handled: the loading flag is false, the
\* request is no longer pending and no request was issued in its place
Settled(r) ==
  /\ isLoading' = FALSE
  /\ \A q \in chatReqs' \cup manualReqs' : q.id # r.id \/ q.kind # r.kind
  /\ Cardinality(chatReqs') + Cardinality(manualReqs')
       = Cardinality(chatReqs) + Cardinality(manualReqs) - 1
  /\ UNCHANGED << nchat, ntask >>

\* C27: every text send, voice submit or speak that receives a response,
\* success or failure, ends with the loading flag false and the pending
\* state of the submitting component cleared, with no re-send; the mounted
\* component then accepts the same action again (send and speak for a
\* non-blank text, the microphone button enabled)
C27_ResponseSettles ==
  [][/\ \A r \in chatReqs :
          ((\E resp \in ChatResponses(r) : SendOk(r, resp)) \/ SendFail(r))
            => /\ Settled(r)
               /\ r.live => SendAccepted(PlainText, isLoading')
     /\ \A r \in chatReqs :
          ((\E resp \in ChatResponses(r) : VoiceOk(r, resp)) \/ VoiceFail(r))
            => /\ Settled(r)
               /\ r.live => ~isLoading'
     /\ \A r \in manualReqs :
          ((\E resp \in SpeakResponses(r) : SpeakOk(r, resp)) \/ SpeakFail(r))
            => /\ Settled(r)
               /\ r.live => ButtonEnabled(PlainText, ManualBusy')]_vars

C27_Witness ==
  /\ ManualMounted /\ ntask = 1 /\ manualReqs = {} /\ nchat = 1
  /\ chatReqs = {} /\ ~isLoading
  /\ Len(history) = 0 /\ Len(messages) = 2
  /\ messages[2] = ErrorMessage

\* the drop hands the drop zone a file it rejects
RejectedDrop(f) ==
  \/ DropVoice(f) /\ ~VoiceAccepts(f)
  \/ DropImage(f) /\ ~ImageAccepts(f)

\* C28: a voice or image file of a disallowed type or over the size cap is
\* rejected before any upload request, leaves stage and ids unchanged, and
\* sets a user-visible error message
C28_RejectedFileReported ==
  [][\A f \in Files :
       RejectedDrop(f) =>
         /\ UNCHANGED << setupReqs, nreq, currentStep, voiceId, cloneId, imageId >>
         /\ error' # NoError]_vars

\* C29: a page reload restores exactly voiceId, cloneId and imageId and
\* nothing else: the transcript, conversationId, mode, the loading flag,
\* the history and both media references are at their initial empty values
\* (and so is isReady)
C29_ReloadRestoresIdsOnly ==
  [][Reload =>
       /\ UNCHANGED << voiceId, cloneId, imageId >>
       /\ isReady' = FALSE
       /\ messages' = << >> /\ conversationId' = Null
       /\ mode' = "auto" /\ isLoading' = FALSE
       /\ history' = << >>
       /\ currentVideoUrl' = NoUrl /\ currentAudioUrl' = NoUrl]_vars

C29_Witness ==
  /\ voiceId # Null /\ cloneId # Null /\ imageId # Null
  /\ ~isReady
  /\ nchat > 0 /\ ntask > 0
  /\ messages = << >> /\ conversationId = Null /\ history = << >>
  /\ mode = "auto" /\ ~isLoading
  /\ currentVideoUrl = NoUrl /\ currentAudioUrl = NoUrl

\* C30: a completed conversation exchange, on the text path and on the
\* voice path alike, hands its media to the playback slot: the video URL
\* when present, otherwise the audio URL
C30_ExchangeHandsOverMedia ==
  [][\A r \in chatReqs : \A resp \in ChatResponses(r) :
       (SendOk(r, resp) \/ VoiceOk(r, resp))
         => MediaHandedOver(resp.video, resp.audio)]_vars

\* the muted flag of the media element that is authoritative: the video
\* element while it is rendered, otherwise the audio element
AuthoritativeMuted ==
  IF VideoRendered(currentVideoUrl) THEN videoMuted ELSE audioMuted

\* C31: while a media element is rendered, the mute state shown by the
\* control (isMuted) equals the muted flag of the authoritative element,
\* also after the reference was cleared and a new one set while muted
C31_MuteMirrored ==
  (AvatarMounted /\ Presented(currentVideoUrl, currentAudioUrl) # NoUrl)
    => isMuted = AuthoritativeMuted

\* a step of the manual flow: speak, preview, their responses, a replay
ManualOperation ==
  \/ Speak
  \/ Preview
  \/ \E r \in manualReqs : \E resp \in SpeakResponses(r) : SpeakOk(r, resp)
  \/ \E r \in manualReqs : SpeakFail(r) \/ PreviewOk(r) \/ PreviewFail(r)
  \/ \E i \in 1..Len(history) : PlayFromHistory(i)

\* a step of the conversation flow: send, voice submit, their responses,
\* clearChat
ConversationOperation ==
  \/ Send
  \/ ClearChat
  \/ \E r \in chatReqs : OnStop(r)
  \/ \E r \in chatReqs : \E resp \in ChatResponses(r) :
        SendOk(r, resp) \/ VoiceOk(r, resp)
  \/ \E r \in chatReqs : SendFail(r) \/ VoiceFail(r)

\* C32: manual operations change no conversation state (transcript,
\* conversationId, the pending flag the conversation reads) and
\* conversation operations change no manual state (history, text buffer)
C32_FlowsOwnTheirState ==
  [][/\ ManualOperation => UNCHANGED << messages, conversationId, isLoading >>
     /\ ConversationOperation => UNCHANGED << history, text >>]_vars

\* a chat exchange sent to the service, or a manual speak, whose response
\* has not arrived
AwaitingResponse ==
  \/ \E r \in chatReqs : r.stage = "sent"
  \/ \E r \in manualReqs : r.kind = "speak"

\* C33: isLoading is true in every state in which a chat exchange or a
\* manual speak is awaiting its response
C33_LoadingWhileAwaiting == AwaitingResponse => isLoading

\* a clone request is started with the stored voice id (handleCreateClone
\* returns without one), and only reset sets voiceId back to null: a clone
\* request pending while voiceId is null was started before a reset
StartedBeforeReset(r) == r.kind = "clone" /\ voiceId = Null

\* C34: the response to a request started before a reset sets no
\* identifier and does not advance the setup stage (stated for the clone
\* request, whose start before the reset can be read from the state)
C34_ResetOutlivesResponses ==
  [][\A r \in setupReqs :
       (StartedBeforeReset(r) /\ CloneOk(r))
         => UNCHANGED << voiceId, cloneId, imageId, currentStep >>]_vars

\* the page after a reload of a session that had its three identifiers
ReloadedSession == AllIdsSet /\ ~isReady

\* C35: after a reload of a session whose three identifiers were set, the
\* user reaches the conversation and manual flows without a reset and
\* without a new upload
C35_ReloadedReachesFlows ==
  ReloadedSession ~> MainShown(showSetup, isReady)

\* C36: whenever cloneId is non-null it is the clone created from the
\* voice sample whose id is the stored voiceId (stated for the states in
\* which a voice id is stored)
C36_CloneOfStoredVoice ==
  (cloneId # Null /\ voiceId # Null) => cloneId = ServerClone(voiceId)

\* the step issues no request and changes no state of either flow
NothingSubmitted ==
  /\ UNCHANGED << chatReqs, manualReqs, nchat, ntask >>
  /\ UNCHANGED << messages, isLoading, history, media, input, text >>

\* C37: a text send, speak or preview attempted with an empty or
\* whitespace-only text issues no request and changes no state: no turn is
\* appended, the loading flag, the history and the media references are
\* unchanged and the text buffer is kept
C37_BlankTextIsNoOp ==
  [][/\ (Send /\ IsBlank(input)) => NothingSubmitted
     /\ ((Speak \/ Preview) /\ IsBlank(text)) => NothingSubmitted]_vars

C37_Witness ==
  /\ ChatMounted /\ IsBlank(input) /\ input # EmptyText
  /\ ~isLoading /\ chatReqs = {}
  /\ Len(messages) = 2 /\ nchat = 1

====
